---- MODULE Spec2Model ----
(***************************************************************************)
(* The subscriptions pallet (pallets/subscriptions/src/lib.rs) as a state  *)
(* machine.  The state is the pallet's storage (decl_storage), the free    *)
(* balances of the currency and the space directory; every dispatchable of *)
(* decl_module is one action that runs the whole call: its checks in the   *)
(* order of the code, then its writes.  `op` and `result` record the last  *)
(* call and the DispatchResult it returned.                                *)
(***************************************************************************)
EXTENDS Integers, Sequences, FiniteSets, TLC

VARIABLES
    NextPlanId,                \* lib.rs:77
    PlanById,                  \* lib.rs:79
    PlanIdsBySpace,            \* lib.rs:82
    NextSubscriptionId,        \* lib.rs:87
    SubscriptionById,          \* lib.rs:89
    SubscriptionIdsByPatron,   \* lib.rs:92
    SubscriptionIdsBySpace,    \* lib.rs:95
    SubscriptionIdsByPeriod,   \* lib.rs:99
    RecipientWallet,           \* lib.rs:105
    PatronWallet,              \* lib.rs:109
    balances,                  \* free balance of every account (Currency)
    SpaceById,                 \* the space directory (pallet_spaces)
    op,                        \* the dispatchable called last
    result                     \* the DispatchResult it returned

storage == <<NextPlanId, PlanById, PlanIdsBySpace, NextSubscriptionId,
             SubscriptionById, SubscriptionIdsByPatron, SubscriptionIdsBySpace,
             SubscriptionIdsByPeriod, RecipientWallet, PatronWallet>>

vars == <<NextPlanId, PlanById, PlanIdsBySpace, NextSubscriptionId,
          SubscriptionById, SubscriptionIdsByPatron, SubscriptionIdsBySpace,
          SubscriptionIdsByPeriod, RecipientWallet, PatronWallet,
          balances, SpaceById, op, result>>

----------------------------------------------------------------------------
(* Bounds and input sets *)

\* create_plan is not called successfully more than MaxPlans times.
MaxPlans == 2

\* Currency::minimum_balance(), the existential deposit the runtime configures.
minimum_balance == 2

\* Option::None of every Option<AccountId>.
None == "None"

Accounts == {"a1", "a2", "a3"}

\* custom_wallet / new_wallet arguments of the plan calls and of subscribe.
PlanWallets == {None, "a3"}

\* custom_wallet argument of update_space_default_wallet.
SpaceWallets == {None, "a2"}

\* custom_wallet argument of update_subscriptions_default_wallet.
PatronWallets == {None, "a3"}

\* Space ids callers pass; space 3 is not in the directory.
SpaceIds == {1, 2, 3}

\* Prices callers pass: one below the minimum balance, one equal to it.
Prices == {minimum_balance - 1, minimum_balance}

\* SubscriptionPeriod: one of the five variants; no check of the pallet reads it.
Periods == {"Daily"}

\* Content: an IPFS cid of the right length, and Raw, which is not supported.
Contents == {"IPFS", "Raw"}

\* Plan ids callers pass: the ids that can exist and one that cannot.
PlanIdInputs == 1..(MaxPlans + 1)

\* Subscription ids callers pass.
SubscriptionIdInputs == {1, 2}

Ok == "Ok"

----------------------------------------------------------------------------
(* Storage getters and helpers *)

\* Self::plan_by_id(id).ok_or(SubscriptionPlanNotFound)
require_plan(plan_id) ==
    IF plan_id \in DOMAIN PlanById THEN Ok ELSE "SubscriptionPlanNotFound"

\* Self::subscription_by_id(id).ok_or(SubscriptionNotFound)
require_subscription(subscription_id) ==
    IF subscription_id \in DOMAIN SubscriptionById THEN Ok ELSE "SubscriptionNotFound"

\* Spaces::require_space(id)
require_space(space_id) ==
    IF space_id \in DOMAIN SpaceById THEN Ok ELSE "SpaceNotFound"

\* Space::ensure_space_owner(account)
ensure_space_owner(space_id, account) ==
    IF SpaceById[space_id].owner = account THEN Ok ELSE "NotASpaceOwner"

\* Self::ensure_subscriptions_manager(account, &space)
ensure_subscriptions_manager(account, space_id) ==
    IF SpaceById[space_id].owner = account
    THEN Ok ELSE "NoPermissionToUpdateSubscriptionPlan"

\* Subscription::ensure_subscriber(&who)
ensure_subscriber(subscription_id, who) ==
    IF SubscriptionById[subscription_id].created = who THEN Ok ELSE "NotSubscriber"

\* Utils::is_valid_content(content)
is_valid_content(content) ==
    IF content = "IPFS" THEN Ok ELSE "ContentIsInvalid"

\* SubscriptionPlan::new(id, created_by, space_id, wallet, price, period, content)
SubscriptionPlan_new(id, created_by, space_id, wallet, price, period, content) ==
    [id |-> id, created |-> created_by, updated |-> None, space_id |-> space_id,
     wallet |-> wallet, price |-> price, period |-> period, content |-> content,
     is_active |-> TRUE]

\* Subscription::new(id, created_by, wallet, plan_id)
Subscription_new(id, created_by, wallet, plan_id) ==
    [id |-> id, created |-> created_by, updated |-> None, wallet |-> wallet,
     plan_id |-> plan_id, is_active |-> TRUE]

\* Currency::transfer(from, to, value, KeepAlive): what it returns.
transfer_result(from, to, value) ==
    IF balances[from] < value THEN "InsufficientBalance"
    ELSE IF balances[from] - value < minimum_balance THEN "KeepAlive"
    ELSE Ok

\* Currency::transfer(from, to, value, KeepAlive): the balances after it succeeded.
transfer_balances(from, to, value) ==
    IF from = to THEN balances
    ELSE [balances EXCEPT ![from] = @ - value, ![to] = @ + value]

----------------------------------------------------------------------------
(* Initial state: the storage defaults of decl_storage *)

Init ==
    /\ NextPlanId = 1
    /\ PlanById = <<>>
    /\ PlanIdsBySpace = [s \in SpaceIds |-> <<>>]
    /\ NextSubscriptionId = 1
    /\ SubscriptionById = <<>>
    /\ SubscriptionIdsByPatron = [a \in Accounts |-> <<>>]
    /\ SubscriptionIdsBySpace = [s \in SpaceIds |-> <<>>]
    /\ SubscriptionIdsByPeriod = [p \in Periods |-> <<>>]
    /\ RecipientWallet = [s \in SpaceIds |-> None]
    /\ PatronWallet = [a \in Accounts |-> None]
    /\ balances = [a \in Accounts |->
                     IF a = "a3" THEN minimum_balance ELSE 5 * minimum_balance]
    /\ SpaceById = (1 :> [id |-> 1, owner |-> "a1"]) @@ (2 :> [id |-> 2, owner |-> "a2"])
    /\ op = "none"
    /\ result = Ok

----------------------------------------------------------------------------
(* create_plan, lib.rs:147-186 *)

\* create_plan's checks with the price compared to zero instead of the minimum
\* balance.
create_plan_result_price_above_zero(sender, space_id, price, content) ==
    IF is_valid_content(content) # Ok THEN is_valid_content(content)
    ELSE IF ~(price > 0) THEN "PriceLowerExistencialDeposit"
    ELSE IF require_space(space_id) # Ok THEN require_space(space_id)
    ELSE ensure_space_owner(space_id, sender)

\* create_plan's checks without the check of the space's owner.
create_plan_result_owner_unchecked(sender, space_id, price, content) ==
    IF is_valid_content(content) # Ok THEN is_valid_content(content)
    ELSE IF ~(price >= minimum_balance) THEN "PriceLowerExistencialDeposit"
    ELSE require_space(space_id)

\* create_plan's checks with a space that is not in the directory let through.
create_plan_result_space_unchecked(sender, space_id, price, content) ==
    IF is_valid_content(content) # Ok THEN is_valid_content(content)
    ELSE IF ~(price >= minimum_balance) THEN "PriceLowerExistencialDeposit"
    ELSE IF require_space(space_id) # Ok THEN Ok
    ELSE ensure_space_owner(space_id, sender)

\* The checks of create_plan, in the order of the code (lines 157-165).
create_plan_result(sender, space_id, price, content) ==
    IF is_valid_content(content) # Ok THEN is_valid_content(content)
    ELSE IF ~(price >= minimum_balance) THEN "PriceLowerExistencialDeposit"
    ELSE IF require_space(space_id) # Ok THEN require_space(space_id)
    ELSE ensure_space_owner(space_id, sender)

\* create_plan's writes without the advance of NextPlanId.
create_plan_commit_counter_kept(sender, space_id, custom_wallet, price, period, content) ==
    LET plan_id == NextPlanId
        subscription_plan == SubscriptionPlan_new(plan_id, sender, space_id,
                                 custom_wallet, price, period, content)
    IN  /\ PlanById' = (plan_id :> subscription_plan) @@ PlanById
        /\ PlanIdsBySpace' = [PlanIdsBySpace EXCEPT ![space_id] = Append(@, plan_id)]
        /\ NextPlanId' = NextPlanId

\* create_plan's writes with the space's index replaced by the new id instead
\* of the id pushed onto it.
create_plan_commit_index_replaced(sender, space_id, custom_wallet, price, period, content) ==
    LET plan_id == NextPlanId
        subscription_plan == SubscriptionPlan_new(plan_id, sender, space_id,
                                 custom_wallet, price, period, content)
    IN  /\ PlanById' = (plan_id :> subscription_plan) @@ PlanById
        /\ PlanIdsBySpace' = [PlanIdsBySpace EXCEPT ![space_id] = <<plan_id>>]
        /\ NextPlanId' = NextPlanId + 1

\* The writes of create_plan (lines 170-183).
create_plan_commit(sender, space_id, custom_wallet, price, period, content) ==
    LET plan_id == NextPlanId
        subscription_plan == SubscriptionPlan_new(plan_id, sender, space_id,
                                 custom_wallet, price, period, content)
    IN  /\ PlanById' = (plan_id :> subscription_plan) @@ PlanById
        /\ PlanIdsBySpace' = [PlanIdsBySpace EXCEPT ![space_id] = Append(@, plan_id)]
        /\ NextPlanId' = NextPlanId + 1

\* create_plan with its writes moved before the check of the space's owner.
create_plan_writes_before_owner_check(sender, space_id, custom_wallet, price, period, content) ==
    LET r == create_plan_result(sender, space_id, price, content) IN
    /\ NextPlanId <= MaxPlans
    /\ op' = "create_plan"
    /\ result' = r
    /\ IF r \in {Ok, "NotASpaceOwner"}
       THEN /\ PlanById' = (NextPlanId :> SubscriptionPlan_new(NextPlanId, sender,
                               space_id, custom_wallet, price, period, content)) @@ PlanById
            /\ PlanIdsBySpace' = [PlanIdsBySpace EXCEPT ![space_id] = Append(@, NextPlanId)]
            /\ NextPlanId' = NextPlanId + 1
       ELSE UNCHANGED <<PlanById, PlanIdsBySpace, NextPlanId>>
    /\ UNCHANGED <<NextSubscriptionId, SubscriptionById, SubscriptionIdsByPatron,
                   SubscriptionIdsBySpace, SubscriptionIdsByPeriod, RecipientWallet,
                   PatronWallet, balances, SpaceById>>

create_plan(sender, space_id, custom_wallet, price, period, content) ==
    LET r == create_plan_result(sender, space_id, price, content) IN
    /\ (r = Ok) => (NextPlanId <= MaxPlans)
    /\ op' = "create_plan"
    /\ result' = r
    /\ IF r = Ok
       THEN create_plan_commit(sender, space_id, custom_wallet, price, period, content)
       ELSE UNCHANGED <<PlanById, PlanIdsBySpace, NextPlanId>>
    /\ UNCHANGED <<NextSubscriptionId, SubscriptionById, SubscriptionIdsByPatron,
                   SubscriptionIdsBySpace, SubscriptionIdsByPeriod, RecipientWallet,
                   PatronWallet, balances, SpaceById>>

----------------------------------------------------------------------------
(* update_plan, lib.rs:189-203 *)

\* update_plan's checks without the comparison of the new wallet to the old.
update_plan_result_same_wallet_accepted(sender, plan_id, new_wallet) ==
    IF require_plan(plan_id) # Ok THEN require_plan(plan_id)
    ELSE IF require_space(PlanById[plan_id].space_id) # Ok
         THEN require_space(PlanById[plan_id].space_id)
    ELSE ensure_subscriptions_manager(sender, PlanById[plan_id].space_id)

\* update_plan's checks without the check of the caller's permission.
update_plan_result_manager_unchecked(sender, plan_id, new_wallet) ==
    IF require_plan(plan_id) # Ok THEN require_plan(plan_id)
    ELSE IF require_space(PlanById[plan_id].space_id) # Ok
         THEN require_space(PlanById[plan_id].space_id)
    ELSE IF ~(new_wallet # PlanById[plan_id].wallet) THEN "NothingToUpdate"
    ELSE Ok

update_plan_result(sender, plan_id, new_wallet) ==
    IF require_plan(plan_id) # Ok THEN require_plan(plan_id)
    ELSE IF require_space(PlanById[plan_id].space_id) # Ok
         THEN require_space(PlanById[plan_id].space_id)
    ELSE IF ensure_subscriptions_manager(sender, PlanById[plan_id].space_id) # Ok
         THEN ensure_subscriptions_manager(sender, PlanById[plan_id].space_id)
    ELSE IF ~(new_wallet # PlanById[plan_id].wallet) THEN "NothingToUpdate"
    ELSE Ok

update_plan(sender, plan_id, new_wallet) ==
    LET r == update_plan_result(sender, plan_id, new_wallet) IN
    /\ op' = "update_plan"
    /\ result' = r
    /\ IF r = Ok
       THEN PlanById' = [PlanById EXCEPT ![plan_id].wallet = new_wallet]
       ELSE UNCHANGED PlanById
    /\ UNCHANGED <<NextPlanId, PlanIdsBySpace, NextSubscriptionId, SubscriptionById,
                   SubscriptionIdsByPatron, SubscriptionIdsBySpace,
                   SubscriptionIdsByPeriod, RecipientWallet, PatronWallet,
                   balances, SpaceById>>

----------------------------------------------------------------------------
(* update_space_default_wallet, lib.rs:207-224 *)

update_space_default_wallet_result(sender, space_id) ==
    IF require_space(space_id) # Ok THEN require_space(space_id)
    ELSE ensure_space_owner(space_id, sender)

update_space_default_wallet(sender, space_id, custom_wallet) ==
    LET r == update_space_default_wallet_result(sender, space_id) IN
    /\ op' = "update_space_default_wallet"
    /\ result' = r
    /\ IF r = Ok
       THEN RecipientWallet' = [RecipientWallet EXCEPT ![SpaceById[space_id].id] = custom_wallet]
       ELSE UNCHANGED RecipientWallet
    /\ UNCHANGED <<NextPlanId, PlanById, PlanIdsBySpace, NextSubscriptionId,
                   SubscriptionById, SubscriptionIdsByPatron, SubscriptionIdsBySpace,
                   SubscriptionIdsByPeriod, PatronWallet, balances, SpaceById>>

----------------------------------------------------------------------------
(* delete_plan, lib.rs:227-230 *)

\* delete_plan removing the plan from PlanById.
delete_plan_removes_plan(sender, plan_id) ==
    /\ op' = "delete_plan"
    /\ result' = Ok
    /\ PlanById' = [id \in DOMAIN PlanById \ {plan_id} |-> PlanById[id]]
    /\ UNCHANGED <<NextPlanId, PlanIdsBySpace, NextSubscriptionId, SubscriptionById,
                   SubscriptionIdsByPatron, SubscriptionIdsBySpace,
                   SubscriptionIdsByPeriod, RecipientWallet, PatronWallet,
                   balances, SpaceById>>

delete_plan(sender, plan_id) ==
    /\ op' = "delete_plan"
    /\ result' = Ok
    /\ UNCHANGED <<storage, balances, SpaceById>>

----------------------------------------------------------------------------
(* subscribe, lib.rs:233-278 *)

\* lines 241-248: does an id of the caller's patron index resolve to a
\* subscription to this plan?
is_already_subscribed(sender, plan_id) ==
    \E i \in 1..Len(SubscriptionIdsByPatron[sender]) :
        LET subscription_id == SubscriptionIdsByPatron[sender][i] IN
        /\ require_subscription(subscription_id) = Ok
        /\ SubscriptionById[subscription_id].plan_id = plan_id

\* lines 259-263: plan wallet, else the space's recipient wallet, else the
\* owner of the space, else None.
recipient(plan_id) ==
    LET plan == PlanById[plan_id] IN
    IF plan.wallet # None THEN plan.wallet
    ELSE IF RecipientWallet[plan.space_id] # None THEN RecipientWallet[plan.space_id]
    ELSE IF require_space(plan.space_id) = Ok THEN SpaceById[plan.space_id].owner
    ELSE None

\* The checks of subscribe and the transfer, in the order of the code.
subscribe_result(sender, plan_id) ==
    IF require_plan(plan_id) # Ok THEN require_plan(plan_id)
    ELSE IF ~is_already_subscribed(sender, plan_id) THEN "AlreadySubscribed"
    ELSE IF ~(recipient(plan_id) # None) THEN "RecipientNotFound"
    ELSE transfer_result(sender, recipient(plan_id), PlanById[plan_id].price)

subscribe(sender, plan_id, custom_wallet) ==
    LET r == subscribe_result(sender, plan_id)
        subscription_id == NextSubscriptionId
        subscription == Subscription_new(subscription_id, sender, custom_wallet, plan_id)
    IN
    /\ op' = "subscribe"
    /\ result' = r
    /\ IF r = Ok
       THEN /\ balances' = transfer_balances(sender, recipient(plan_id),
                                             PlanById[plan_id].price)
            /\ SubscriptionById' = (subscription_id :> subscription) @@ SubscriptionById
       ELSE UNCHANGED <<balances, SubscriptionById>>
    /\ UNCHANGED <<NextPlanId, PlanById, PlanIdsBySpace, NextSubscriptionId,
                   SubscriptionIdsByPatron, SubscriptionIdsBySpace,
                   SubscriptionIdsByPeriod, RecipientWallet, PatronWallet, SpaceById>>

----------------------------------------------------------------------------
(* update_subscribtion, lib.rs:281-298 *)

update_subscribtion_result(sender, subscription_id, new_wallet) ==
    IF require_subscription(subscription_id) # Ok THEN require_subscription(subscription_id)
    ELSE IF ensure_subscriber(subscription_id, sender) # Ok
         THEN ensure_subscriber(subscription_id, sender)
    ELSE IF ~(new_wallet # SubscriptionById[subscription_id].wallet) THEN "NothingToUpdate"
    ELSE Ok

\* update_subscribtion storing a new record under an id that holds none,
\* instead of failing.
update_subscribtion_inserts_when_missing(sender, subscription_id, new_wallet) ==
    LET r == IF require_subscription(subscription_id) # Ok THEN Ok
             ELSE update_subscribtion_result(sender, subscription_id, new_wallet) IN
    /\ op' = "update_subscribtion"
    /\ result' = r
    /\ IF require_subscription(subscription_id) # Ok
       THEN SubscriptionById' = (subscription_id :>
                Subscription_new(subscription_id, sender, new_wallet, 1)) @@ SubscriptionById
       ELSE IF r = Ok
       THEN SubscriptionById' = [SubscriptionById EXCEPT ![subscription_id].wallet = new_wallet]
       ELSE UNCHANGED SubscriptionById
    /\ UNCHANGED <<NextPlanId, PlanById, PlanIdsBySpace, NextSubscriptionId,
                   SubscriptionIdsByPatron, SubscriptionIdsBySpace,
                   SubscriptionIdsByPeriod, RecipientWallet, PatronWallet,
                   balances, SpaceById>>

update_subscribtion(sender, subscription_id, new_wallet) ==
    LET r == update_subscribtion_result(sender, subscription_id, new_wallet) IN
    /\ op' = "update_subscribtion"
    /\ result' = r
    /\ IF r = Ok
       THEN SubscriptionById' = [SubscriptionById EXCEPT ![subscription_id].wallet = new_wallet]
       ELSE UNCHANGED SubscriptionById
    /\ UNCHANGED <<NextPlanId, PlanById, PlanIdsBySpace, NextSubscriptionId,
                   SubscriptionIdsByPatron, SubscriptionIdsBySpace,
                   SubscriptionIdsByPeriod, RecipientWallet, PatronWallet,
                   balances, SpaceById>>

----------------------------------------------------------------------------
(* update_subscriptions_default_wallet, lib.rs:302-315 *)

\* update_subscriptions_default_wallet whose None branch removes nothing.
update_subscriptions_default_wallet_never_cleared(sender, custom_wallet) ==
    /\ op' = "update_subscriptions_default_wallet"
    /\ result' = Ok
    /\ PatronWallet' = IF custom_wallet # None
                       THEN [PatronWallet EXCEPT ![sender] = custom_wallet]
                       ELSE PatronWallet
    /\ UNCHANGED <<NextPlanId, PlanById, PlanIdsBySpace, NextSubscriptionId,
                   SubscriptionById, SubscriptionIdsByPatron, SubscriptionIdsBySpace,
                   SubscriptionIdsByPeriod, RecipientWallet, balances, SpaceById>>

update_subscriptions_default_wallet(sender, custom_wallet) ==
    /\ op' = "update_subscriptions_default_wallet"
    /\ result' = Ok
    /\ PatronWallet' = [PatronWallet EXCEPT ![sender] = custom_wallet]
    /\ UNCHANGED <<NextPlanId, PlanById, PlanIdsBySpace, NextSubscriptionId,
                   SubscriptionById, SubscriptionIdsByPatron, SubscriptionIdsBySpace,
                   SubscriptionIdsByPeriod, RecipientWallet, balances, SpaceById>>

----------------------------------------------------------------------------
(* unsubscribe, lib.rs:318-322 *)

unsubscribe(sender, plan_id) ==
    /\ op' = "unsubscribe"
    /\ result' = Ok
    /\ UNCHANGED <<storage, balances, SpaceById>>

----------------------------------------------------------------------------
(* The runtime dispatches one signed call at a time. *)

Next ==
    \E sender \in Accounts :
        \/ \E space_id \in SpaceIds, custom_wallet \in PlanWallets, price \in Prices,
              period \in Periods, content \in Contents :
                create_plan(sender, space_id, custom_wallet, price, period, content)
        \/ \E plan_id \in PlanIdInputs, new_wallet \in PlanWallets :
                update_plan(sender, plan_id, new_wallet)
        \/ \E space_id \in SpaceIds, custom_wallet \in SpaceWallets :
                update_space_default_wallet(sender, space_id, custom_wallet)
        \/ \E plan_id \in PlanIdInputs : delete_plan(sender, plan_id)
        \/ \E plan_id \in PlanIdInputs, custom_wallet \in PlanWallets :
                subscribe(sender, plan_id, custom_wallet)
        \/ \E subscription_id \in SubscriptionIdInputs, new_wallet \in PlanWallets :
                update_subscribtion(sender, subscription_id, new_wallet)
        \/ \E custom_wallet \in PatronWallets :
                update_subscriptions_default_wallet(sender, custom_wallet)
        \/ \E plan_id \in PlanIdInputs : unsubscribe(sender, plan_id)

Spec == Init /\ [][Next]_vars

----------------------------------------------------------------------------
(* The space directory lets the owner of a space hand it to another account. *)

\* pallet_spaces: Space.owner of an existing space becomes new_owner.
space_owner_changed(space_id, new_owner) ==
    /\ require_space(space_id) = Ok
    /\ SpaceById[space_id].owner # new_owner
    /\ SpaceById' = [SpaceById EXCEPT ![space_id].owner = new_owner]
    /\ op' = "space_owner_changed"
    /\ result' = Ok
    /\ UNCHANGED <<storage, balances>>

\* The accounts a space is handed to.
NewOwners == {"a3"}

NextWithOwnership ==
    \/ Next
    \/ \E space_id \in SpaceIds, new_owner \in NewOwners :
            space_owner_changed(space_id, new_owner)

SpecWithOwnership == Init /\ [][NextWithOwnership]_vars

----------------------------------------------------------------------------
(* What the claims speak of *)

\* An index only grew by appending: the old vector is a prefix of the new one.
IsPrefix(old, new) ==
    /\ Len(old) <= Len(new)
    /\ \A i \in 1..Len(old) : new[i] = old[i]

\* The ids a vector lists.
Range(ids) == {ids[i] : i \in 1..Len(ids)}

\* The patron already holds an active subscription to the plan.
HasActiveSubscription(patron, plan_id) ==
    \E id \in DOMAIN SubscriptionById :
        /\ SubscriptionById[id].created = patron
        /\ SubscriptionById[id].plan_id = plan_id
        /\ SubscriptionById[id].is_active

\* The recipient the precedence rule names for a stored plan: the plan's
\* wallet, else the recipient wallet of its space, else the owner of its space.
ExpectedRecipient(plan_id) ==
    CASE PlanById[plan_id].wallet # None -> PlanById[plan_id].wallet
      [] /\ PlanById[plan_id].wallet = None
         /\ RecipientWallet[PlanById[plan_id].space_id] # None
            -> RecipientWallet[PlanById[plan_id].space_id]
      [] /\ PlanById[plan_id].wallet = None
         /\ RecipientWallet[PlanById[plan_id].space_id] = None
         /\ PlanById[plan_id].space_id \in DOMAIN SpaceById
            -> SpaceById[PlanById[plan_id].space_id].owner
      [] OTHER -> None

\* The balances after `amount` went from payer to payee and nothing else moved.
BalancesAfterPayment(payer, payee, amount) ==
    [a \in Accounts |->
        balances[a] - (IF a = payer THEN amount ELSE 0)
                    + (IF a = payee THEN amount ELSE 0)]

\* The preconditions under which the contract of subscribe promises success:
\* the plan exists, the caller holds no active subscription to it, a recipient
\* resolves, and the caller keeps the minimum balance after paying the price.
SubscribeContractMet(sender, plan_id) ==
    /\ plan_id \in DOMAIN PlanById
    /\ ~HasActiveSubscription(sender, plan_id)
    /\ ExpectedRecipient(plan_id) # None
    /\ balances[sender] - PlanById[plan_id].price >= minimum_balance

----------------------------------------------------------------------------
\* C1: a subscribe that succeeds, as it is to whenever the contract's
\* preconditions hold, debits exactly the plan's price from the caller and
\* credits it to the resolved recipient, changes no other balance, and adds
\* exactly one subscription, which names the plan, is active and carries the
\* wallet the caller supplied.
SubscribeSettlesAndRecords ==
    [][op' = "subscribe" =>
        \A sender \in Accounts, plan_id \in PlanIdInputs, custom_wallet \in PlanWallets :
            ( /\ subscribe(sender, plan_id, custom_wallet)
              /\ SubscribeContractMet(sender, plan_id) )
            => ( /\ balances' = BalancesAfterPayment(sender, ExpectedRecipient(plan_id),
                                                     PlanById[plan_id].price)
                 /\ Cardinality(DOMAIN SubscriptionById') =
                        Cardinality(DOMAIN SubscriptionById) + 1
                 /\ \E id \in DOMAIN SubscriptionById' \ DOMAIN SubscriptionById :
                        /\ SubscriptionById'[id].plan_id = plan_id
                        /\ SubscriptionById'[id].is_active
                        /\ SubscriptionById'[id].wallet = custom_wallet )]_vars

----------------------------------------------------------------------------
\* C2: a first-time subscribe succeeds: when the plan has no wallet, its space
\* has no recipient wallet, and the caller holds no subscription to the plan and
\* at least price + minimum balance, subscribe(caller, plan, None) returns Ok,
\* moves the price from the caller to the owner of the space and stores a new
\* active subscription to the plan with wallet None.
FirstSubscribeSucceeds ==
    [][op' = "subscribe" =>
        \A sender \in Accounts, plan_id \in PlanIdInputs :
            ( /\ subscribe(sender, plan_id, None)
              /\ plan_id \in DOMAIN PlanById
              /\ PlanById[plan_id].wallet = None
              /\ RecipientWallet[PlanById[plan_id].space_id] = None
              /\ PlanById[plan_id].space_id \in DOMAIN SpaceById
              /\ \A id \in DOMAIN SubscriptionById :
                    ~(/\ SubscriptionById[id].created = sender
                      /\ SubscriptionById[id].plan_id = plan_id)
              /\ balances[sender] >= PlanById[plan_id].price + minimum_balance )
            => ( /\ result' = Ok
                 /\ balances' = BalancesAfterPayment(sender,
                                    SpaceById[PlanById[plan_id].space_id].owner,
                                    PlanById[plan_id].price)
                 /\ \E id \in DOMAIN SubscriptionById' \ DOMAIN SubscriptionById :
                        /\ SubscriptionById'[id].created = sender
                        /\ SubscriptionById'[id].plan_id = plan_id
                        /\ SubscriptionById'[id].is_active
                        /\ SubscriptionById'[id].wallet = None )]_vars

----------------------------------------------------------------------------
\* C3: uniqueness: no patron ever holds two active subscriptions to one plan,
\* and subscribe on a stored plan returns AlreadySubscribed exactly to a caller
\* who already holds an active subscription to it, and then moves no balance
\* and stores no subscription.
SubscriptionUnique ==
    /\ [](\A patron \in Accounts, plan_id \in PlanIdInputs :
            Cardinality({id \in DOMAIN SubscriptionById :
                            /\ SubscriptionById[id].created = patron
                            /\ SubscriptionById[id].plan_id = plan_id
                            /\ SubscriptionById[id].is_active}) <= 1)
    /\ [][op' = "subscribe" =>
            \A sender \in Accounts, plan_id \in PlanIdInputs, custom_wallet \in PlanWallets :
                ( /\ subscribe(sender, plan_id, custom_wallet)
                  /\ plan_id \in DOMAIN PlanById )
                => ( /\ (result' = "AlreadySubscribed")
                            <=> HasActiveSubscription(sender, plan_id)
                     /\ HasActiveSubscription(sender, plan_id)
                            => UNCHANGED <<balances, SubscriptionById>> )]_vars

----------------------------------------------------------------------------
\* C4: the payment of a subscribe goes to the first present of the plan's
\* wallet, the recipient wallet of the plan's space and the owner of that space,
\* read at the call; when none is present the call returns RecipientNotFound.
RecipientPrecedence ==
    [][op' = "subscribe" =>
        \A sender \in Accounts, plan_id \in PlanIdInputs, custom_wallet \in PlanWallets :
            ( /\ subscribe(sender, plan_id, custom_wallet)
              /\ plan_id \in DOMAIN PlanById
              /\ ~HasActiveSubscription(sender, plan_id)
              /\ balances[sender] - PlanById[plan_id].price >= minimum_balance )
            => IF ExpectedRecipient(plan_id) = None
               THEN /\ result' = "RecipientNotFound"
                    /\ UNCHANGED balances
               ELSE balances' = BalancesAfterPayment(sender, ExpectedRecipient(plan_id),
                                                     PlanById[plan_id].price)]_vars

----------------------------------------------------------------------------
\* C5: every call is all or nothing: a call that returns an error leaves the
\* plans, the subscriptions, both id counters, every index, both wallet maps
\* and every balance as they were.
AllOrNothing ==
    [][result' # Ok => UNCHANGED <<storage, balances, SpaceById>>]_vars

\* C5 witness: a create_plan by an account that does not own the space has
\* returned its error in a state that holds plans.
AllOrNothingWitness ==
    /\ op = "create_plan"
    /\ result = "NotASpaceOwner"
    /\ PlanById # <<>>

----------------------------------------------------------------------------
\* C6: plan ids start at 1, grow by one with every successful create_plan and
\* are never reused: the stored plans are those of the ids 1..NextPlanId-1, each
\* under its own id, so NextPlanId is the number of stored plans plus one; a
\* successful create_plan stores its plan under the NextPlanId it found, which
\* no plan held, and advances the counter by one; no other call, and no failed
\* create_plan, moves the counter or adds a plan.
PlanIdsSequential ==
    /\ [](/\ DOMAIN PlanById = 1..(NextPlanId - 1)
          /\ NextPlanId = Cardinality(DOMAIN PlanById) + 1
          /\ \A id \in DOMAIN PlanById : PlanById[id].id = id)
    /\ [][IF op' = "create_plan" /\ result' = Ok
          THEN /\ NextPlanId \notin DOMAIN PlanById
               /\ DOMAIN PlanById' = DOMAIN PlanById \cup {NextPlanId}
               /\ NextPlanId' = NextPlanId + 1
          ELSE /\ NextPlanId' = NextPlanId
               /\ DOMAIN PlanById' = DOMAIN PlanById]_vars

\* C6 witness: the second successful create_plan has stored its plan under id 2.
PlanIdsSequentialWitness ==
    /\ op = "create_plan"
    /\ result = Ok
    /\ NextPlanId = 3
    /\ DOMAIN PlanById = {1, 2}

----------------------------------------------------------------------------
\* C7: subscription ids start at 1, grow by one with every successful
\* subscribe and are never reused: a subscribe that succeeds, as it is to
\* whenever the contract's preconditions hold, stores its record under the
\* NextSubscriptionId it found, which no subscription held, and advances that
\* counter by one.
SubscriptionIdsSequential ==
    /\ [](DOMAIN SubscriptionById = 1..(NextSubscriptionId - 1))
    /\ [][op' = "subscribe" =>
            \A sender \in Accounts, plan_id \in PlanIdInputs, custom_wallet \in PlanWallets :
                ( /\ subscribe(sender, plan_id, custom_wallet)
                  /\ SubscribeContractMet(sender, plan_id) )
                => ( /\ NextSubscriptionId \notin DOMAIN SubscriptionById
                     /\ NextSubscriptionId \in DOMAIN SubscriptionById'
                     /\ SubscriptionById'[NextSubscriptionId].id = NextSubscriptionId
                     /\ NextSubscriptionId' = NextSubscriptionId + 1 )]_vars

----------------------------------------------------------------------------
\* C8: after a subscribe that succeeds, as it is to whenever the contract's
\* preconditions hold, the id of the new subscription is listed in the index of
\* the patron, in the index of the plan's space and in the index of the plan's
\* period.
SubscribeIndexesTheSubscription ==
    [][op' = "subscribe" =>
        \A sender \in Accounts, plan_id \in PlanIdInputs, custom_wallet \in PlanWallets :
            ( /\ subscribe(sender, plan_id, custom_wallet)
              /\ SubscribeContractMet(sender, plan_id) )
            => \E id \in DOMAIN SubscriptionById' \ DOMAIN SubscriptionById :
                  /\ id \in Range(SubscriptionIdsByPatron'[sender])
                  /\ id \in Range(SubscriptionIdsBySpace'[PlanById[plan_id].space_id])
                  /\ id \in Range(SubscriptionIdsByPeriod'[PlanById[plan_id].period])]_vars

----------------------------------------------------------------------------
\* C9: index integrity: every id PlanIdsBySpace lists for a space is the id of
\* a stored plan of that space, every id a subscription index lists is the id
\* of a stored subscription, and no step removes or reorders an entry of an
\* index: each index keeps what it held as a prefix.
IndexIntegrity ==
    /\ [](/\ \A s \in SpaceIds : \A id \in Range(PlanIdsBySpace[s]) :
                /\ id \in DOMAIN PlanById
                /\ PlanById[id].space_id = s
          /\ \A a \in Accounts :
                Range(SubscriptionIdsByPatron[a]) \subseteq DOMAIN SubscriptionById
          /\ \A s \in SpaceIds :
                Range(SubscriptionIdsBySpace[s]) \subseteq DOMAIN SubscriptionById
          /\ \A p \in Periods :
                Range(SubscriptionIdsByPeriod[p]) \subseteq DOMAIN SubscriptionById)
    /\ [][/\ \A s \in SpaceIds : IsPrefix(PlanIdsBySpace[s], PlanIdsBySpace'[s])
          /\ \A a \in Accounts :
                IsPrefix(SubscriptionIdsByPatron[a], SubscriptionIdsByPatron'[a])
          /\ \A s \in SpaceIds :
                IsPrefix(SubscriptionIdsBySpace[s], SubscriptionIdsBySpace'[s])
          /\ \A p \in Periods :
                IsPrefix(SubscriptionIdsByPeriod[p], SubscriptionIdsByPeriod'[p])]_vars

\* C9 witness: a space's index lists two plans, in the order of their creation.
IndexIntegrityWitness ==
    /\ op = "create_plan"
    /\ result = Ok
    /\ \E s \in SpaceIds : PlanIdsBySpace[s] = <<1, 2>>

----------------------------------------------------------------------------
\* C10: a create_plan whose content is valid and whose price is below the
\* currency's minimum balance returns PriceLowerExistencialDeposit, whatever
\* the space and the caller, and stores no plan; every stored plan has a price
\* of at least the minimum balance.  (Every create_plan step either returned
\* that error and left the plans alone, or was no call with such arguments.)
LowPriceRejected ==
    /\ [](\A id \in DOMAIN PlanById : PlanById[id].price >= minimum_balance)
    /\ [][op' = "create_plan" =>
            \/ /\ result' = "PriceLowerExistencialDeposit"
               /\ UNCHANGED <<PlanById, PlanIdsBySpace, NextPlanId>>
            \/ \A price \in {p \in Prices : p < minimum_balance},
                  content \in {c \in Contents : is_valid_content(c) = Ok},
                  sender \in Accounts, space_id \in SpaceIds,
                  custom_wallet \in PlanWallets, period \in Periods :
                    ~create_plan(sender, space_id, custom_wallet, price, period, content)]_vars

\* C10 witness: a create_plan was refused for its price while plans exist.
LowPriceRejectedWitness ==
    /\ op = "create_plan"
    /\ result = "PriceLowerExistencialDeposit"
    /\ NextPlanId > 1

----------------------------------------------------------------------------
\* C11: a create_plan by an account that is not the owner of space_id fails
\* and creates no plan: PlanById, PlanIdsBySpace and NextPlanId stay as they
\* were.  (Every create_plan step either failed and left them alone, or was no
\* call by such an account.)
NonOwnerCannotCreatePlan ==
    [][op' = "create_plan" =>
        \/ /\ result' # Ok
           /\ UNCHANGED <<PlanById, PlanIdsBySpace, NextPlanId>>
        \/ \A sender \in Accounts, space_id \in SpaceIds :
              ~(space_id \in DOMAIN SpaceById /\ SpaceById[space_id].owner = sender)
              => \A custom_wallet \in PlanWallets, price \in Prices,
                    period \in Periods, content \in Contents :
                    ~create_plan(sender, space_id, custom_wallet, price, period, content)]_vars

\* C11 witness: an account that does not own the space was refused before any
\* plan existed.
NonOwnerCannotCreatePlanWitness ==
    /\ op = "create_plan"
    /\ result = "NotASpaceOwner"
    /\ PlanById = <<>>
    /\ NextPlanId = 1

----------------------------------------------------------------------------
\* C12: update_plan by the owner of the plan's space with the wallet the plan
\* already has, and update_subscribtion by the subscription's patron with the
\* wallet the subscription already has (None included), return NothingToUpdate
\* and leave the plan and the subscription as they were.
SameWalletNothingToUpdate ==
    [][/\ op' = "update_plan" =>
            \/ /\ result' = "NothingToUpdate"
               /\ UNCHANGED <<PlanById, SubscriptionById>>
            \/ \A sender \in Accounts, plan_id \in DOMAIN PlanById :
                  ( /\ PlanById[plan_id].space_id \in DOMAIN SpaceById
                    /\ SpaceById[PlanById[plan_id].space_id].owner = sender )
                  => ~update_plan(sender, plan_id, PlanById[plan_id].wallet)
       /\ op' = "update_subscribtion" =>
            \/ /\ result' = "NothingToUpdate"
               /\ UNCHANGED <<PlanById, SubscriptionById>>
            \/ \A sender \in Accounts, subscription_id \in DOMAIN SubscriptionById :
                  SubscriptionById[subscription_id].created = sender
                  => ~update_subscribtion(sender, subscription_id,
                                          SubscriptionById[subscription_id].wallet)]_vars

\* C12 witness: the owner passed update_plan the wallet a plan already had,
\* while one plan has a wallet and another has none.
SameWalletNothingToUpdateWitness ==
    /\ op = "update_plan"
    /\ result = "NothingToUpdate"
    /\ \E p, q \in DOMAIN PlanById : PlanById[p].wallet = None /\ PlanById[q].wallet # None

----------------------------------------------------------------------------
\* C13: delete_plan and unsubscribe are "not yet implemented" entry points: a
\* call by a signed caller returns an outcome that is not success and changes
\* no state.
StubsReportNotSupported ==
    [][op' \in {"delete_plan", "unsubscribe"} =>
        /\ result' # Ok
        /\ UNCHANGED <<storage, balances, SpaceById>>]_vars

----------------------------------------------------------------------------
\* C14: only the owner of a plan's space changes the plan's wallet: update_plan
\* on an id that holds no plan returns SubscriptionPlanNotFound, update_plan by
\* an account other than the owner of the plan's space returns
\* NoPermissionToUpdateSubscriptionPlan, both leave every plan as it was, and a
\* step changes a plan's wallet only if it is a successful update_plan of that
\* plan by the owner of its space.
OnlyOwnerChangesPlanWallet ==
    [][/\ op' = "update_plan" =>
            /\ \/ /\ result' = "SubscriptionPlanNotFound"
                  /\ UNCHANGED PlanById
               \/ \A sender \in Accounts, plan_id \in PlanIdInputs \ DOMAIN PlanById,
                     new_wallet \in PlanWallets :
                        ~update_plan(sender, plan_id, new_wallet)
            /\ \/ /\ result' = "NoPermissionToUpdateSubscriptionPlan"
                  /\ UNCHANGED PlanById
               \/ \A sender \in Accounts, plan_id \in DOMAIN PlanById,
                     new_wallet \in PlanWallets :
                        ( /\ PlanById[plan_id].space_id \in DOMAIN SpaceById
                          /\ SpaceById[PlanById[plan_id].space_id].owner # sender )
                        => ~update_plan(sender, plan_id, new_wallet)
       /\ \A id \in DOMAIN PlanById :
            PlanById'[id].wallet # PlanById[id].wallet
            => /\ op' = "update_plan"
               /\ result' = Ok
               /\ \E new_wallet \in PlanWallets :
                    update_plan(SpaceById[PlanById[id].space_id].owner, id, new_wallet)]_vars

\* C14 witness: an account that does not own the space was refused by
\* update_plan on a plan whose wallet is set.
OnlyOwnerChangesPlanWalletWitness ==
    /\ op = "update_plan"
    /\ result = "NoPermissionToUpdateSubscriptionPlan"
    /\ \E id \in DOMAIN PlanById : PlanById[id].wallet # None

----------------------------------------------------------------------------
----------------------------------------------------------------------------
\* C16: keep-alive settlement: a subscribe that nothing but the payment stands
\* against (the plan exists, the caller holds no subscription to it, a
\* recipient resolves) and that would leave the caller less than the minimum
\* balance fails with the transfer's error and stores nothing; and after a
\* subscribe that returned Ok the caller still holds the minimum balance.
KeepAliveSettlement ==
    [][op' = "subscribe" =>
        \A sender \in Accounts, plan_id \in PlanIdInputs, custom_wallet \in PlanWallets :
            subscribe(sender, plan_id, custom_wallet)
            => /\ ( /\ plan_id \in DOMAIN PlanById
                    /\ ~HasActiveSubscription(sender, plan_id)
                    /\ ExpectedRecipient(plan_id) # None
                    /\ balances[sender] - PlanById[plan_id].price < minimum_balance )
                  => ( /\ result' \in {"InsufficientBalance", "KeepAlive"}
                       /\ UNCHANGED <<balances, SubscriptionById>> )
               /\ result' = Ok => balances'[sender] >= minimum_balance]_vars

----------------------------------------------------------------------------
----------------------------------------------------------------------------
\* C18: plan lifecycle frame: a stored plan is never removed, it is active, and
\* no step (delete_plan and unsubscribe included) changes its id, space_id,
\* price, period, content or is_active; a step that changes a plan changes its
\* wallet alone, and is a successful update_plan of that plan id.
PlanLifecycleFrame ==
    /\ [](\A id \in DOMAIN PlanById : PlanById[id].is_active)
    /\ [][\A id \in DOMAIN PlanById :
            /\ id \in DOMAIN PlanById'
            /\ PlanById'[id].id = PlanById[id].id
            /\ PlanById'[id].space_id = PlanById[id].space_id
            /\ PlanById'[id].price = PlanById[id].price
            /\ PlanById'[id].period = PlanById[id].period
            /\ PlanById'[id].content = PlanById[id].content
            /\ PlanById'[id].is_active = PlanById[id].is_active
            /\ PlanById'[id] # PlanById[id]
               => /\ op' = "update_plan"
                  /\ result' = Ok
                  /\ PlanById' = [PlanById EXCEPT ![id].wallet = PlanById'[id].wallet]
                  /\ \E sender \in Accounts, new_wallet \in PlanWallets :
                        update_plan(sender, id, new_wallet)]_vars

\* C18 witness: delete_plan has returned while two plans are stored, one of
\* them with a wallet.
PlanLifecycleFrameWitness ==
    /\ op = "delete_plan"
    /\ DOMAIN PlanById = {1, 2}
    /\ \E id \in DOMAIN PlanById : PlanById[id].wallet # None

----------------------------------------------------------------------------
\* C19: ownership is read at the call, not at the creation of the plan: once
\* the owner of a space has changed, a subscribe to a plan of that space with
\* no wallet, the space having no recipient wallet, pays the owner of the
\* moment and not the plan's creator; update_plan is refused exactly to the
\* accounts that do not own the plan's space at the call, and
\* update_space_default_wallet succeeds exactly for the account that owns the
\* space at the call.
OwnershipReadAtCall ==
    [][/\ op' = "subscribe" =>
            \A sender \in Accounts, plan_id \in PlanIdInputs, custom_wallet \in PlanWallets :
                ( /\ subscribe(sender, plan_id, custom_wallet)
                  /\ SubscribeContractMet(sender, plan_id)
                  /\ PlanById[plan_id].wallet = None
                  /\ RecipientWallet[PlanById[plan_id].space_id] = None
                  /\ PlanById[plan_id].created # SpaceById[PlanById[plan_id].space_id].owner )
                => balances' = BalancesAfterPayment(sender,
                                   SpaceById[PlanById[plan_id].space_id].owner,
                                   PlanById[plan_id].price)
       /\ op' = "update_plan" =>
            \A sender \in Accounts, plan_id \in DOMAIN PlanById, new_wallet \in PlanWallets :
                update_plan(sender, plan_id, new_wallet)
                => ( (result' = "NoPermissionToUpdateSubscriptionPlan")
                        <=> sender # SpaceById[PlanById[plan_id].space_id].owner )
       /\ op' = "update_space_default_wallet" =>
            \A sender \in Accounts, space_id \in DOMAIN SpaceById, custom_wallet \in SpaceWallets :
                update_space_default_wallet(sender, space_id, custom_wallet)
                => ( (result' = Ok) <=> sender = SpaceById[space_id].owner )]_vars

----------------------------------------------------------------------------
\* C20: RecipientNotFound is unreachable while no space leaves the directory:
\* the space of every stored plan is in the directory, so the recipient of
\* every stored plan resolves, whatever the plan's wallet and the space's
\* recipient wallet are, and no call has returned RecipientNotFound.
RecipientAlwaysFound ==
    /\ result # "RecipientNotFound"
    /\ \A id \in DOMAIN PlanById :
          /\ require_space(PlanById[id].space_id) = Ok
          /\ recipient(id) # None
          /\ recipient(id) \in Accounts

\* C20 witness: subscribe has been called while a stored plan has no wallet
\* and its space no recipient wallet, so that only the owner is left to resolve.
RecipientAlwaysFoundWitness ==
    /\ op = "subscribe"
    /\ result # Ok
    /\ \E id \in DOMAIN PlanById :
          /\ PlanById[id].wallet = None
          /\ RecipientWallet[PlanById[id].space_id] = None
          /\ recipient(id) = SpaceById[PlanById[id].space_id].owner

====
